---- MODULE Spec2Model ----
(***************************************************************************)
(* State-machine model of ElectronApiServiceImpl                           *)
(* (shell/renderer/electron_api_service_impl.cc): the gating of browser    *)
(* messages on document_created_, the pending message queue and its        *)
(* replay, and the life cycle of the mojo receiver binding.                *)
(***************************************************************************)
EXTENDS Integers, Sequences, FiniteSets, TLC

\* ------------------------------------------------------------------ bounds
MaxArrivals == 3
MaxBinds == 2
\* every arrival is emitted at most twice outside a non-terminating replay
MaxEmitted == 2 * MaxArrivals + 1

\* ------------------------------------------------------------------ inputs
Internals == {FALSE}
Channels == {"ping"}
Payloads == {"x"}
SenderIds == {5}
PortLists == {<<"port">>}

\* what a moved-from blink::CloneableMessage deserializes to when the build
\* leaves nothing readable behind
MovedFrom == "moved-from"

\* an invalid (default or moved-from) mojo::PendingAssociatedReceiver
NullReceiver == 0

VARIABLES
  document_created_,   \* bool member
  pending_messages_,   \* std::queue<PendingElectronApiServiceMessage>
  pending_receiver_,   \* mojo::PendingAssociatedReceiver, or NullReceiver
  receiver_,           \* the pipes bound to mojo::AssociatedReceiver receiver_
  frame,               \* render_frame()->GetWebFrame() != nullptr
  alive,               \* the object has not run OnDestruct
  pc,                  \* "idle", or "loop" inside ProcessPendingMessages
  moved_readable,      \* this build's moved-from CloneableMessage still reads
  emitted,             \* log of the EmitIPCEvent calls, in call order
  arrived,             \* log of the Message/ReceivePostMessage arrivals
  binds,               \* log of the BindTo requests: document_created_ then
  activated,           \* log of the receivers handed to receiver_.Bind
  drains,              \* returns of ProcessPendingMessages once created
  transitions,         \* DidCreateDocumentElement calls (0, 1, many)
  served_unbound,      \* a Message call ran after receiver_ lost its binding
  user_activated       \* frame->NotifyUserActivation(kInteraction) was called

vars == <<document_created_, pending_messages_, pending_receiver_, receiver_,
          frame, alive, pc, moved_readable, emitted, arrived, binds,
          activated, drains, transitions, served_unbound, user_activated>>

Init ==
  /\ document_created_ = FALSE
  /\ pending_messages_ = <<>>
  /\ pending_receiver_ = NullReceiver
  /\ receiver_ = {}
  /\ frame = TRUE
  /\ alive = TRUE
  /\ pc = "idle"
  /\ moved_readable \in BOOLEAN
  /\ emitted = <<>>
  /\ arrived = <<>>
  /\ binds = <<>>
  /\ activated = <<>>
  /\ drains = 0
  /\ transitions = 0
  /\ served_unbound = FALSE
  /\ user_activated = FALSE

\* a ProcessPendingMessages call has returned while document_created_
drained == drains > 0

\* the call counts only tell none, one, several apart
Several(n) == IF n >= 2 THEN 2 ELSE n

\* ------------------------------------------------------------- mojo receiver
is_bound(r) == r # {}
reset(r) == {}
Bind(r, p) == r \cup {p}

\* if (receiver_.is_bound()) receiver_.reset();
ResetIfBound_Never(r) == r
ResetIfBound(r) == IF is_bound(r) THEN reset(r) ELSE r

\* pending_receiver_ = std::move(receiver);
StorePending_KeepFirst(old, receiver) ==
  IF old # NullReceiver THEN old ELSE receiver
StorePending(old, receiver) == receiver

\* pending_receiver_ after std::move(pending_receiver_) went into Bind
TakePending_Keep(p) == p
TakePending(p) == NullReceiver

\* receiver_ was bound and has been reset since (OnConnectionError)
unbound_again == activated # <<>> /\ ~is_bound(receiver_)

\* blink::WebLocalFrame* frame = render_frame()->GetWebFrame();
GetWebFrame_IfBound == frame /\ is_bound(receiver_)
GetWebFrame_Always == TRUE
GetWebFrame == frame

\* ------------------------------------------------------------ EmitIPCEvent
\* the argv handed to 'onMessage', with the bookkeeping of the call:
\* src (which arrival caused it), ready/pend (document_created_ and the queue
\* length at the call), replay (called from ProcessPendingMessages)
EmitIPCEvent(internal, channel, ports, args, sender_id, src, replay, q) ==
  [internal |-> internal, channel |-> channel, ports |-> ports, args |-> args,
   sender_id |-> sender_id, src |-> src, replay |-> replay,
   ready |-> document_created_, pend |-> Len(q)]

\* ----------------------------------------------------------------- Message
\* the queue after lines 162-170, from queue q
PushIfNotCreated_Always(q, m, src) ==
  Append(q, [internal |-> m.internal, channel |-> m.channel,
             arguments |-> m.arguments, sender_id |-> m.sender_id,
             src |-> src])
PushIfNotCreated(q, m, src) ==
  IF ~document_created_
    THEN Append(q, [internal |-> m.internal, channel |-> m.channel,
                    arguments |-> m.arguments, sender_id |-> m.sender_id,
                    src |-> src])
    ELSE q

\* what `arguments` holds at line 182
ArgumentsAtConvert(a) ==
  IF ~document_created_ /\ ~moved_readable THEN MovedFrom ELSE a

\* the body of Message for message m (arrival src), starting from queue q
MessageBody(m, src, replay, q) ==
  /\ pending_messages_' = PushIfNotCreated(q, m, src)
  /\ IF GetWebFrame
       THEN /\ Len(emitted) < MaxEmitted
            /\ emitted' = Append(emitted,
                 EmitIPCEvent(m.internal, m.channel, <<>>,
                              ArgumentsAtConvert(m.arguments), m.sender_id,
                              src, replay, PushIfNotCreated(q, m, src)))
       ELSE emitted' = emitted

Arrival(via, internal, channel, payload, ports, sender_id) ==
  [via |-> via, internal |-> internal, channel |-> channel,
   payload |-> payload, ports |-> ports, sender_id |-> sender_id,
   ready |-> document_created_, drained |-> drained, frame |-> frame]

Message ==
  /\ alive /\ pc = "idle"
  /\ Len(arrived) < MaxArrivals
  /\ \E internal \in Internals, channel \in Channels,
        arguments \in Payloads, sender_id \in SenderIds :
       /\ arrived' = Append(arrived,
            Arrival("Message", internal, channel, arguments, <<>>, sender_id))
       /\ MessageBody([internal |-> internal, channel |-> channel,
                       arguments |-> arguments, sender_id |-> sender_id],
                      Len(arrived) + 1, FALSE, pending_messages_)
  /\ served_unbound' = (served_unbound \/ unbound_again)
  /\ UNCHANGED <<document_created_, pending_receiver_, receiver_, frame,
                 alive, pc, moved_readable, binds, activated, drains,
                 transitions, user_activated>>

\* ------------------------------------------------------ ReceivePostMessage
ReceivePostMessage ==
  /\ alive /\ pc = "idle"
  /\ Len(arrived) < MaxArrivals
  /\ \E channel \in Channels, message \in Payloads, ports \in PortLists :
       /\ arrived' = Append(arrived,
            Arrival("ReceivePostMessage", FALSE, channel, message, ports, 0))
       /\ IF GetWebFrame
            THEN /\ Len(emitted) < MaxEmitted
                 /\ emitted' = Append(emitted,
                      EmitIPCEvent(FALSE, channel, ports, <<message>>, 0,
                                   Len(arrived) + 1, FALSE, pending_messages_))
            ELSE emitted' = emitted
  /\ UNCHANGED <<document_created_, pending_messages_, pending_receiver_,
                 receiver_, frame, alive, pc, moved_readable, binds,
                 activated, drains, transitions, served_unbound,
                 user_activated>>

\* -------------------------------------------------- ProcessPendingMessages
ProcessPendingMessages ==
  /\ alive /\ pc = "idle"
  /\ pc' = "loop"
  /\ UNCHANGED <<document_created_, pending_messages_, pending_receiver_,
                 receiver_, frame, alive, moved_readable, emitted, arrived,
                 binds, activated, drains, transitions, served_unbound,
                 user_activated>>

\* pending_messages_.front() and the queue after pending_messages_.pop()
Front_Last(q) == q[Len(q)]
Front(q) == Head(q)
Pop_Keep(q) == q
Pop(q) == Tail(q)

LoopIteration ==
  /\ alive /\ pc = "loop"
  /\ pending_messages_ # <<>>
  /\ LET msg == Front(pending_messages_)
     IN MessageBody(msg, msg.src, TRUE, Pop(pending_messages_))
  /\ UNCHANGED <<document_created_, pending_receiver_, receiver_, frame,
                 alive, pc, moved_readable, arrived, binds, activated, drains,
                 transitions, served_unbound, user_activated>>

LoopExit ==
  /\ alive /\ pc = "loop"
  /\ pending_messages_ = <<>>
  /\ pc' = "idle"
  /\ drains' = IF document_created_ THEN Several(drains + 1) ELSE drains
  /\ UNCHANGED <<document_created_, pending_messages_, pending_receiver_,
                 receiver_, frame, alive, moved_readable, emitted, arrived,
                 binds, activated, transitions, served_unbound,
                 user_activated>>

\* ------------------------------------------------------------------ BindTo
\* the test of BindTo: bind at once, or keep the receiver for later
ShouldBindNow_Always(created) == TRUE
ShouldBindNow(created) == created

BindTo ==
  /\ alive /\ pc = "idle"
  /\ Len(binds) < MaxBinds
  /\ LET receiver == Len(binds) + 1
     IN /\ binds' = Append(binds, document_created_)
        /\ IF ShouldBindNow(document_created_)
             THEN /\ receiver_' = Bind(ResetIfBound(receiver_), receiver)
                  /\ activated' = Append(activated, receiver)
                  /\ UNCHANGED pending_receiver_
             ELSE /\ pending_receiver_' =
                       StorePending(pending_receiver_, receiver)
                  /\ UNCHANGED <<receiver_, activated>>
  /\ UNCHANGED <<document_created_, pending_messages_, frame, alive, pc,
                 moved_readable, emitted, arrived, drains, transitions,
                 served_unbound, user_activated>>

\* ------------------------------------------------ DidCreateDocumentElement
\* the assignment that opens DidCreateDocumentElement
MarkCreated_Toggle(created) == ~created
MarkCreated(created) == TRUE

DidCreateDocumentElement ==
  /\ alive /\ pc = "idle"
  /\ document_created_' = MarkCreated(document_created_)
  /\ transitions' = Several(transitions + 1)
  /\ IF pending_receiver_ # NullReceiver
       THEN /\ receiver_' = Bind(ResetIfBound(receiver_), pending_receiver_)
            /\ activated' = Append(activated, pending_receiver_)
            /\ pending_receiver_' = TakePending(pending_receiver_)
       ELSE UNCHANGED <<pending_receiver_, receiver_, activated>>
  /\ UNCHANGED <<pending_messages_, frame, alive, pc, moved_readable, emitted,
                 arrived, binds, drains, served_unbound, user_activated>>

\* ------------------------------------------------------- OnConnectionError
OnConnectionError ==
  /\ alive /\ pc = "idle"
  /\ receiver_' = ResetIfBound(receiver_)
  /\ UNCHANGED <<document_created_, pending_messages_, pending_receiver_,
                 frame, alive, pc, moved_readable, emitted, arrived, binds,
                 activated, drains, transitions, served_unbound,
                 user_activated>>

\* -------------------------------------------------------------- OnDestruct
OnDestruct ==
  /\ alive /\ pc = "idle"
  /\ alive' = FALSE
  /\ UNCHANGED <<document_created_, pending_messages_, pending_receiver_,
                 receiver_, frame, pc, moved_readable, emitted, arrived,
                 binds, activated, drains, transitions, served_unbound,
                 user_activated>>

\* the web frame goes away: GetWebFrame() returns nullptr from now on
FrameDetached ==
  /\ alive /\ pc = "idle" /\ frame
  /\ frame' = FALSE
  /\ UNCHANGED <<document_created_, pending_messages_, pending_receiver_,
                 receiver_, alive, pc, moved_readable, emitted, arrived,
                 binds, activated, drains, transitions, served_unbound,
                 user_activated>>

\* ---------------------------------------------------- NotifyUserActivation
\* whether the frame has been notified, after a call that found frame f
NotifyFrame_IfCreated(f, n) == IF f /\ document_created_ THEN TRUE ELSE n
NotifyFrame(f, n) == IF f THEN TRUE ELSE n

NotifyUserActivation ==
  /\ alive /\ pc = "idle"
  /\ user_activated' = NotifyFrame(GetWebFrame, user_activated)
  /\ UNCHANGED <<document_created_, pending_messages_, pending_receiver_,
                 receiver_, frame, alive, pc, moved_readable, emitted,
                 arrived, binds, activated, drains, transitions,
                 served_unbound>>

Next ==
  \/ Message
  \/ ReceivePostMessage
  \/ ProcessPendingMessages
  \/ LoopIteration
  \/ LoopExit
  \/ BindTo
  \/ DidCreateDocumentElement
  \/ OnConnectionError
  \/ NotifyUserActivation
  \/ OnDestruct
  \/ FrameDetached

Spec == Init /\ [][Next]_vars

\* the message path alone: BindTo, OnConnectionError and NotifyUserActivation
\* neither read nor write document_created_, pending_messages_ or the frame,
\* and no message step reads receiver_ or pending_receiver_
MessageNext ==
  \/ Message
  \/ ReceivePostMessage
  \/ ProcessPendingMessages
  \/ LoopIteration
  \/ LoopExit
  \/ DidCreateDocumentElement
  \/ OnDestruct
  \/ FrameDetached

\* a ProcessPendingMessages call that is running keeps running; every other
\* step waits for a caller outside this class
MessageSpec ==
  /\ Init /\ [][MessageNext]_vars
  /\ WF_vars(LoopIteration) /\ WF_vars(LoopExit)

\* ================================================================== claims
\* the EmitIPCEvent calls caused by arrival k
CallsFor(k) == {i \in DOMAIN emitted : emitted[i].src = k}
\* arrival k came through Message while document_created_ was false
Buffered(k) == arrived[k].via = "Message" /\ ~arrived[k].ready
\* call i is the immediate handling of an arrival, not a replay from the queue
Live(i) == ~emitted[i].replay
\* call i replays a queued message once the document element exists
ReadyReplay(i) == emitted[i].replay /\ emitted[i].ready
\* call i hands over exactly what the sender of its arrival supplied
CarriesFields(i) ==
  LET a == arrived[emitted[i].src]
  IN /\ emitted[i].internal = a.internal
     /\ emitted[i].channel = a.channel
     /\ emitted[i].ports = <<>>
     /\ emitted[i].args = a.payload
     /\ emitted[i].sender_id = a.sender_id

\* C1: Messages sent while not ready, then DidCreateDocumentElement and the
\* drain, then Messages sent while ready, the frame present throughout: the
\* EmitIPCEvent calls are exactly the arrivals, in order, each exactly once.
C1_Scenario ==
  /\ frame /\ pc = "idle"
  /\ document_created_ /\ drained
  /\ \A k \in DOMAIN arrived :
       /\ arrived[k].via = "Message"
       /\ arrived[k].ready => arrived[k].drained
C1_ExactlyOnceInOrder ==
  C1_Scenario =>
    /\ Len(emitted) = Len(arrived)
    /\ \A i \in DOMAIN emitted : emitted[i].src = i

\* C2: no EmitIPCEvent call happens while document_created_ is false.
C2_NoEmitBeforeCreated ==
  \A i \in DOMAIN emitted : emitted[i].ready

C4_FieldsOnceNotMoved ==
  /\ \A i \in DOMAIN emitted :
       arrived[emitted[i].src].via = "Message" =>
         /\ CarriesFields(i)
         /\ emitted[i].args # MovedFrom
  /\ \A k \in DOMAIN arrived :
       Buffered(k) => Cardinality(CallsFor(k)) <= 1
  /\ C1_Scenario =>
       \A k \in DOMAIN arrived : Cardinality(CallsFor(k)) = 1

\* C5: pending_messages_ never grows while document_created_ is true; with
\* no Message before readiness the queue is empty in every state; after the
\* drain it stays empty and later messages are handed over at once, in
\* arrival order.
C5_QueueGrowsOnlyBeforeCreated ==
  /\ [][document_created_ =>
          Len(pending_messages_') <= Len(pending_messages_)]_vars
  /\ []((\A k \in DOMAIN arrived : ~Buffered(k)) => pending_messages_ = <<>>)
  /\ [](drained => pending_messages_ = <<>>)
  /\ [](\A k \in DOMAIN arrived :
          (arrived[k].drained /\ arrived[k].frame) =>
            /\ Cardinality(CallsFor(k)) = 1
            /\ \A i \in CallsFor(k) : Live(i) /\ emitted[i].pend = 0)
  /\ [](\A i, j \in DOMAIN emitted :
          (i < j /\ arrived[emitted[i].src].drained
                 /\ arrived[emitted[j].src].drained)
            => emitted[i].src < emitted[j].src)
C5_Witness ==
  /\ drained /\ pending_messages_ = <<>>
  /\ \E k \in DOMAIN arrived : Buffered(k)
  /\ \E i, j \in DOMAIN emitted :
       /\ i < j /\ Live(i) /\ Live(j)
       /\ arrived[emitted[i].src].via = "Message"
       /\ arrived[emitted[j].src].via = "Message"
       /\ arrived[emitted[i].src].drained
       /\ arrived[emitted[j].src].drained
\* call i is one the gate lets through: made with document_created_ true, or
\* made by ReceivePostMessage
Due(i) ==
  emitted[i].ready \/ arrived[emitted[i].src].via = "ReceivePostMessage"

EarlyBinds == {r \in DOMAIN binds : ~binds[r]}
\* the receivers that were ever handed to receiver_.Bind
EverBound == {activated[k] : k \in DOMAIN activated}
LastOf(S) == CHOOSE r \in S : \A t \in S : t <= r

\* C7: of two or more BindTo requests made while document_created_ is false,
\* only the last becomes the active binding at DidCreateDocumentElement;
\* every earlier one is dropped and is never bound.
C7_OnlyLastPendingBound ==
  /\ [](\A r \in EarlyBinds :
          r # LastOf(EarlyBinds) => r \notin EverBound /\ r \notin receiver_)
  /\ []((~document_created_ /\ EarlyBinds # {})
          => pending_receiver_ = LastOf(EarlyBinds))
  /\ [][(~document_created_ /\ document_created_' /\ EarlyBinds # {})
          => /\ receiver_' = {LastOf(EarlyBinds)}
             /\ activated' = <<LastOf(EarlyBinds)>>]_vars
C7_Witness ==
  /\ Cardinality(EarlyBinds) >= 2
  /\ document_created_
  /\ receiver_ = {LastOf(EarlyBinds)}

\* C8: a BindTo made while document_created_ is true makes its receiver the
\* active binding within the call, after releasing the previous one; at most
\* one binding is active and it is the one activated last.
C8_ImmediateSingleActive ==
  /\ [](Cardinality(receiver_) <= 1)
  /\ [](\A r \in receiver_ :
          activated # <<>> /\ r = activated[Len(activated)])
  /\ [][(document_created_ /\ Len(binds') = Len(binds) + 1)
          => /\ receiver_' = {Len(binds')}
             /\ activated' = Append(activated, Len(binds'))
             /\ pending_receiver_' = pending_receiver_]_vars
C8_Witness ==
  /\ Len(activated) >= 2
  /\ \E r \in DOMAIN binds : binds[r] /\ receiver_ = {r}
  /\ \E k \in DOMAIN activated : activated[k] \notin receiver_

\* C9: a second DidCreateDocumentElement, and a second drain, hand over no
\* message again and leave receiver_, pending_receiver_, pending_messages_
\* and document_created_ as they were.
C9_SecondTransitionIdempotent ==
  /\ [][(transitions >= 1 /\ transitions' # transitions)
          => UNCHANGED <<document_created_, pending_messages_,
                         pending_receiver_, receiver_, emitted>>]_vars
  /\ [][(drained /\ (pc # "idle" \/ pc' # "idle"))
          => UNCHANGED <<document_created_, pending_messages_,
                         pending_receiver_, receiver_, emitted>>]_vars
  /\ [](transitions >= 1 =>
          document_created_ /\ pending_receiver_ = NullReceiver)
C9_Witness ==
  /\ transitions = 2 /\ drains = 2
  /\ is_bound(receiver_)
  /\ Len(activated) >= 2
  /\ \E i \in DOMAIN emitted : ReadyReplay(i)

\* C10: OnConnectionError only unbinds receiver_: document_created_,
\* pending_messages_ and pending_receiver_ keep their values and nothing is
\* handed over; a message handled afterwards is still delivered (or replayed
\* from the queue) as if the binding were there.
C10_DisconnectOnlyUnbinds ==
  /\ [][(is_bound(receiver_) /\ ~is_bound(receiver_'))
          => UNCHANGED <<document_created_, pending_messages_,
                         pending_receiver_, emitted, frame, pc>>]_vars
  /\ [][(unbound_again /\ pc = "idle" /\ Len(arrived') = Len(arrived) + 1
                       /\ frame)
          => /\ Len(emitted') = Len(emitted) + 1
             /\ emitted'[Len(emitted')].src = Len(arrived')
             /\ pending_messages_' = pending_messages_]_vars
  /\ [][(unbound_again /\ pc = "loop" /\ pending_messages_ # <<>> /\ frame)
          => /\ Len(emitted') = Len(emitted) + 1
             /\ emitted'[Len(emitted')].src = Head(pending_messages_).src
             /\ pending_messages_' = Tail(pending_messages_)]_vars
  /\ [](\A i \in DOMAIN emitted :
          arrived[emitted[i].src].via = "Message" =>
            /\ emitted[i].internal = arrived[emitted[i].src].internal
            /\ emitted[i].channel = arrived[emitted[i].src].channel
            /\ emitted[i].sender_id = arrived[emitted[i].src].sender_id)
C10_Witness ==
  /\ served_unbound /\ unbound_again
  /\ \E i \in DOMAIN emitted :
       /\ arrived[emitted[i].src].via = "Message"
       /\ arrived[emitted[i].src].ready
  /\ \E i \in DOMAIN emitted : ReadyReplay(i)
\* the arrivals whose message sits in pending_messages_
Queued == {pending_messages_[n].src : n \in DOMAIN pending_messages_}
\* arrival k was buffered, has left the queue with document_created_ true,
\* and no EmitIPCEvent call replayed it: the drain found no frame for it
DroppedAtReplay(k) ==
  /\ k \in DOMAIN arrived /\ Buffered(k)
  /\ document_created_ /\ k \notin Queued
  /\ \A i \in CallsFor(k) : ~ReadyReplay(i)

\* C11: with document_created_ true and no web frame, a message being
\* delivered (a live Message, or one popped by ProcessPendingMessages) is
\* dropped: no EmitIPCEvent call is made for it, it is not put (back) into
\* the queue, and it is never delivered later.
C11_DroppedWithoutFrame ==
  /\ [][(document_created_ /\ ~frame)
          => /\ emitted' = emitted
             /\ \/ pending_messages_' = pending_messages_
                \/ /\ pc = "loop" /\ pending_messages_ # <<>>
                   /\ pending_messages_' = Tail(pending_messages_)]_vars
  /\ [](\A k \in DOMAIN arrived :
          (arrived[k].via = "Message" /\ arrived[k].ready /\ ~arrived[k].frame)
            => CallsFor(k) = {} /\ k \notin Queued)
  /\ [][\A k \in DOMAIN arrived :
          DroppedAtReplay(k) =>
            DroppedAtReplay(k)' /\ CallsFor(k)' = CallsFor(k)]_vars
C11_Witness ==
  /\ document_created_ /\ ~frame /\ drained
  /\ \E k \in DOMAIN arrived :
       arrived[k].via = "Message" /\ arrived[k].ready /\ ~arrived[k].frame
  /\ \E k \in DOMAIN arrived : DroppedAtReplay(k)

\* C12: NotifyUserActivation is not gated: with document_created_ true or
\* false it notifies the frame when there is one and does nothing when there
\* is none; it leaves document_created_, pending_messages_,
\* pending_receiver_ and receiver_ alone and makes no EmitIPCEvent call.
C12_ActivationBypassesGate ==
  /\ [][user_activated' # user_activated
          => /\ frame
             /\ UNCHANGED <<document_created_, pending_messages_,
                            pending_receiver_, receiver_, emitted>>]_vars
  /\ []((alive /\ pc = "idle" /\ frame /\ ~user_activated)
          => ENABLED (NotifyUserActivation /\ user_activated'))
  /\ []((alive /\ pc = "idle" /\ ~frame)
          => ~ENABLED <<NotifyUserActivation>>_vars)
C12_Witness ==
  /\ user_activated
  /\ ~document_created_
  /\ pending_messages_ # <<>>
\* every message buffered before readiness has been replayed to EmitIPCEvent
AllReplayed ==
  \A k \in DOMAIN arrived :
    Buffered(k) => \E i \in CallsFor(k) : ReadyReplay(i)

C14_EveryCallTerminates ==
  /\ [][(pc = "loop" /\ pending_messages_ # <<>>)
          => pending_messages_' = Tail(pending_messages_)]_vars
  /\ (pc = "loop") ~> (pc = "idle" /\ pending_messages_ = <<>>)

\* C14 (amended): a ProcessPendingMessages call made while document_created_
\* is true, or made with an empty queue, terminates with the queue empty,
\* having taken each queued message once, in enqueue order, and handed it to
\* Message.
C14_CallTerminatesOnceCreated ==
  /\ [][(pc = "loop" /\ document_created_ /\ pending_messages_ # <<>>)
          => /\ pending_messages_' = Tail(pending_messages_)
             /\ frame =>
                  /\ Len(emitted') = Len(emitted) + 1
                  /\ emitted'[Len(emitted')].src = Head(pending_messages_).src
                  /\ emitted'[Len(emitted')].replay]_vars
  /\ [][(pc = "loop" /\ pc' = "idle")
          => pending_messages_ = <<>> /\ pending_messages_' = <<>>]_vars
  /\ (pc = "loop" /\ (document_created_ \/ pending_messages_ = <<>>))
       ~> (pc = "idle" /\ pending_messages_ = <<>>)
C14_Witness ==
  /\ pc = "idle" /\ drained /\ pending_messages_ = <<>>
  /\ \E i, j \in DOMAIN emitted :
       /\ ReadyReplay(i) /\ ReadyReplay(j)
       /\ j = i + 1 /\ emitted[j].src = emitted[i].src + 1

\* C15: whenever document_created_ is true, pending_receiver_ is empty:
\* DidCreateDocumentElement makes the pending receiver the only active one
\* and empties the slot, and a BindTo made once document_created_ is true
\* stores no pending receiver.
C15_NoPendingOnceCreated ==
  /\ [](document_created_ => pending_receiver_ = NullReceiver)
  /\ [][(transitions' # transitions /\ pending_receiver_ # NullReceiver)
          => /\ receiver_' = {pending_receiver_}
             /\ activated' = Append(activated, pending_receiver_)
             /\ pending_receiver_' = NullReceiver]_vars
  /\ [][(document_created_ /\ Len(binds') = Len(binds) + 1)
          => pending_receiver_' = NullReceiver]_vars
C15_Witness ==
  /\ document_created_
  /\ pending_receiver_ = NullReceiver
  /\ EarlyBinds # {}
  /\ \E r \in DOMAIN binds : binds[r]
  /\ LastOf(EarlyBinds) \in EverBound

\* C16: receiver_ is bound only while document_created_ is true; a BindTo made
\* while document_created_ is false puts its receiver in pending_receiver_
\* and leaves receiver_, pending_messages_ and document_created_ alone.
C16_NoActiveBeforeCreated ==
  /\ [](is_bound(receiver_) => document_created_)
  /\ [](~document_created_ => activated = <<>>)
  /\ [][(~document_created_ /\ Len(binds') = Len(binds) + 1)
          => /\ pending_receiver_' = Len(binds')
             /\ UNCHANGED <<receiver_, activated, pending_messages_,
                            document_created_>>]_vars
C16_Witness ==
  /\ ~document_created_
  /\ pending_receiver_ # NullReceiver
  /\ ~is_bound(receiver_)
  /\ pending_messages_ # <<>>

\* C17: document_created_ starts false, becomes true only in
\* DidCreateDocumentElement and never goes back to false, whichever of the
\* other operations runs afterwards.
C17_CreatedMonotonic ==
  /\ ~document_created_
  /\ [][document_created_ => document_created_']_vars
  /\ [][document_created_' # document_created_
          => transitions' # transitions]_vars
  /\ [](document_created_ <=> transitions >= 1)
C17_Witness ==
  /\ document_created_
  /\ transitions = 2
  /\ drained
  /\ unbound_again
  /\ user_activated
  /\ \E r \in DOMAIN binds : binds[r]
  /\ \E k \in DOMAIN arrived :
        arrived[k].ready /\ arrived[k].via = "Message"
  /\ \E k \in DOMAIN arrived :
        arrived[k].ready /\ arrived[k].via = "ReceivePostMessage"

====
